---- MODULE Spec2Model ----
(***************************************************************************)
(* gateway-sf-text-sentiment: a REST API method (POST /sentiment) that     *)
(* validates the request body, starts an execution of the state machine    *)
(* SentimentAnalisys and answers from the outcome of the start call, and   *)
(* the state machine itself: DetectDominantLanguage -> FormatResult ->     *)
(* TranslateNonPTLanguage -> (TranslateText -> FormatTranslatedResult)? -> *)
(* DetectSentiment.                                                        *)
(***************************************************************************)
EXTENDS Integers, Sequences, FiniteSets, TLC

(* ------------------------------ bounds --------------------------------- *)
\* number of requests in flight in the concurrent specification
MaxRequests == 2
\* longest Languages list the language detector returns
MaxLanguages == 2
\* scores the language detector attaches to a language are 1..MaxScore
MaxScore == 2

Requests == 1..MaxRequests

(* ------------------------------ JSON values ---------------------------- *)
\* Record constructors list their fields in the order in which the names
\* first occur in the module, the order TLC keeps them in.
\* A string is a sequence of one-character strings, so that escaping acts on
\* its characters.
JStr(s) == [s |-> s, type |-> "string"]
JNum(n) == [type |-> "number", n |-> n]
JArr(items) == [type |-> "array", items |-> items]
JObj(fields) == [type |-> "object", fields |-> fields]
Missing == [type |-> "missing"]

PT == <<"p", "t">>
EN == <<"e", "n">>
ES == <<"e", "s">>

\* A JSONPath is a sequence of steps: a member name or an array index.
F(name) == [name |-> name, k |-> "field"]
I(i) == [k |-> "index", i |-> i]

RECURSIVE Resolve(_, _)
Resolve(v, path) ==
  IF path = <<>> THEN v
  ELSE LET st == Head(path) IN
    IF st.k = "field"
    THEN IF v.type = "object" /\ st.name \in DOMAIN v.fields
         THEN Resolve(v.fields[st.name], Tail(path))
         ELSE Missing
    ELSE IF v.type = "array" /\ st.i + 1 <= Len(v.items)
         THEN Resolve(v.items[st.i + 1], Tail(path))
         ELSE Missing

\* A parameter is a path into the state input ('Name.$' / JsonPath.stringAt)
\* or a constant.
AtPath(path) == [k |-> "path", path |-> path]
Const(v) == [k |-> "const", v |-> v]

ParamValue(p, doc) == IF p.k = "path" THEN Resolve(doc, p.path) ELSE p.v

\* Parameters: every path must resolve, else the state fails.
ParametersOk(params, doc) ==
  \A n \in DOMAIN params : ParamValue(params[n], doc) # Missing

\* mutant: the parameters are added to the input instead of replacing it
EvalParametersKeepsInput(params, doc) ==
  JObj([n \in (DOMAIN params) \cup (DOMAIN doc.fields) |->
          IF n \in DOMAIN params THEN ParamValue(params[n], doc) ELSE doc.fields[n]])

EvalParameters(params, doc) ==
  JObj([n \in DOMAIN params |-> ParamValue(params[n], doc)])

\* mutant: the result replaces the input
MergeAtReplaces(doc, name, result) == JObj([n \in {name} |-> result])

\* resultPath '$.result' with outputPath '$': the input with the result added
\* under the member, every other member kept.
MergeAt(doc, name, result) ==
  JObj([n \in (DOMAIN doc.fields) \cup {name} |->
          IF n = name THEN result ELSE doc.fields[n]])

(* ------------------------- the state machine --------------------------- *)
\* parameters of each state, as declared
detectLanguageParameters == [Text |-> AtPath(<<F("txt")>>)]

\* mutant: a default language in place of the detected one
formatResultParametersDefaultPt ==
  [Text |-> AtPath(<<F("txt")>>),
   Language |-> Const(JStr(PT))]

\* mutant: the second entry of the list in place of the first
formatResultParametersSecond ==
  [Text |-> AtPath(<<F("txt")>>),
   Language |-> AtPath(<<F("result"), F("Languages"), I(1), F("LanguageCode")>>)]

formatResultParameters ==
  [Text |-> AtPath(<<F("txt")>>),
   Language |-> AtPath(<<F("result"), F("Languages"), I(0), F("LanguageCode")>>)]

detectSentimentParameters ==
  [Text |-> AtPath(<<F("Text")>>),
   LanguageCode |-> AtPath(<<F("Language")>>)]

\* mutant: another target language
translateTextParametersTargetEn ==
  [Text |-> AtPath(<<F("Text")>>),
   SourceLanguageCode |-> AtPath(<<F("Language")>>),
   TargetLanguageCode |-> Const(JStr(EN))]

translateTextParameters ==
  [Text |-> AtPath(<<F("Text")>>),
   SourceLanguageCode |-> AtPath(<<F("Language")>>),
   TargetLanguageCode |-> Const(JStr(PT))]

\* mutant: the source language of the translation is kept as well
formatTranslatedResultParametersWithSource ==
  [Text |-> AtPath(<<F("result"), F("TranslatedText")>>),
   Language |-> AtPath(<<F("result"), F("TargetLanguageCode")>>),
   SourceLanguageCode |-> AtPath(<<F("result"), F("SourceLanguageCode")>>)]

\* mutant: the text that was sent to the translation is passed on
formatTranslatedResultParametersKeepsText ==
  [Text |-> AtPath(<<F("Text")>>),
   Language |-> AtPath(<<F("result"), F("TargetLanguageCode")>>)]

formatTranslatedResultParameters ==
  [Text |-> AtPath(<<F("result"), F("TranslatedText")>>),
   Language |-> AtPath(<<F("result"), F("TargetLanguageCode")>>)]

\* Choice rules, in the order of the when() calls: <<condition, next state>>
StringEquals(path, s) == [s |-> s, path |-> path, op |-> "StringEquals"]
Not(c) == [op |-> "Not", c |-> c]

\* mutant: the second rule names one language instead of negating the first
translateNonPTLanguageRulesEnOnly ==
  << [cond |-> StringEquals(<<F("Language")>>, PT), next |-> "DetectSentiment"],
     [cond |-> StringEquals(<<F("Language")>>, EN), next |-> "TranslateText"] >>

translateNonPTLanguageRules ==
  << [cond |-> StringEquals(<<F("Language")>>, PT), next |-> "DetectSentiment"],
     [cond |-> Not(StringEquals(<<F("Language")>>, PT)), next |-> "TranslateText"] >>

\* A condition is evaluated on the state input; a variable path that does not
\* resolve is a runtime error of the Choice state.
RECURSIVE CondDefined(_, _)
CondDefined(c, doc) ==
  IF c.op = "Not" THEN CondDefined(c.c, doc) ELSE Resolve(doc, c.path) # Missing

RECURSIVE CondHolds(_, _)
CondHolds(c, doc) ==
  IF c.op = "Not" THEN ~CondHolds(c.c, doc)
  ELSE LET v == Resolve(doc, c.path) IN v.type = "string" /\ v.s = c.s

\* index of the first rule whose condition holds, 0 when none does
FirstMatch(rules, doc) ==
  IF \E i \in 1..Len(rules) : CondHolds(rules[i].cond, doc)
  THEN CHOOSE i \in 1..Len(rules) :
         /\ CondHolds(rules[i].cond, doc)
         /\ \A j \in 1..(i - 1) : ~CondHolds(rules[j].cond, doc)
  ELSE 0

\* successor of each Task / Pass state; DetectSentiment has none
StartAt == "DetectDominantLanguage"

\* mutant: TranslateText is followed by DetectSentiment
chainSkipsFormatTranslatedResult ==
  [DetectDominantLanguage |-> "FormatResult",
   FormatResult |-> "TranslateNonPTLanguage",
   TranslateText |-> "DetectSentiment",
   FormatTranslatedResult |-> "DetectSentiment"]

\* mutant: FormatTranslatedResult is followed by TranslateText again
chainLoopsToTranslateText ==
  [DetectDominantLanguage |-> "FormatResult",
   FormatResult |-> "TranslateNonPTLanguage",
   TranslateText |-> "FormatTranslatedResult",
   FormatTranslatedResult |-> "TranslateText"]

chain ==
  [DetectDominantLanguage |-> "FormatResult",
   FormatResult |-> "TranslateNonPTLanguage",
   TranslateText |-> "FormatTranslatedResult",
   FormatTranslatedResult |-> "DetectSentiment"]

StateNames ==
  {"DetectDominantLanguage", "FormatResult", "TranslateNonPTLanguage",
   "TranslateText", "FormatTranslatedResult", "DetectSentiment"}

(* --------------------------- the capabilities -------------------------- *)
LanguageCodes == {PT, EN, ES}

Language(code, score) ==
  JObj([LanguageCode |-> JStr(code), Score |-> JNum(score)])

\* comprehend:detectDominantLanguage answers with the detected languages in
\* descending order of score; the list may be empty.
SortedByScore(items) ==
  \A i \in 1..(Len(items) - 1) :
     items[i].fields.Score.n >= items[i + 1].fields.Score.n

LanguageLists(maxLen) ==
  UNION { { l \in [1..n -> { Language(c, sc) : c \in LanguageCodes, sc \in 1..MaxScore }] :
              SortedByScore(l) } : n \in 0..maxLen }

DetectDominantLanguageResponses(req, lists) ==
  IF req.fields.Text.type = "string"
  THEN { JObj([Languages |-> JArr(l)]) : l \in lists }
  ELSE {}

\* translate:translateText answers with a translation and echoes the language
\* codes of the request.
Translations == { <<"o", "i">>, <<"b", "o", "m">> }

TranslateTextResponses(req) ==
  IF req.fields.Text.type # "string" THEN {} ELSE
  { JObj([SourceLanguageCode |-> req.fields.SourceLanguageCode,
          TargetLanguageCode |-> req.fields.TargetLanguageCode,
          TranslatedText |-> JStr(t)]) : t \in Translations }

\* comprehend:detectSentiment
Sentiments == { <<"P", "O", "S">>, <<"N", "E", "G">> }

DetectSentimentResponses(req) ==
  IF req.fields.Text.type # "string" THEN {} ELSE
  { JObj([Sentiment |-> JStr(s)]) : s \in Sentiments }

\* the responses a service action can give to a request
ServiceResponses(action, req, lists) ==
  IF action = "comprehend:detectDominantLanguage"
  THEN DetectDominantLanguageResponses(req, lists)
  ELSE IF action = "translate:translateText"
       THEN TranslateTextResponses(req)
       ELSE DetectSentimentResponses(req)

(* ------------------------------ the gateway ---------------------------- *)
\* mutant: txt is not required
requestModelsNoRequired(postRequest) ==
  [type |-> "object",
   properties |-> [n \in {postRequest} |-> [type |-> "string"]],
   required |-> {}]

\* the request model of the method: an object whose required member txt is a
\* string; other members are not constrained
requestModels(postRequest) ==
  [type |-> "object",
   properties |-> [n \in {postRequest} |-> [type |-> "string"]],
   required |-> {postRequest}]

Validates(schema, v) ==
  /\ v.type = schema.type
  /\ \A n \in schema.required : n \in DOMAIN v.fields
  /\ \A n \in (DOMAIN schema.properties) \cap (DOMAIN v.fields) :
        v.fields[n].type = schema.properties[n].type

\* the request validator of the method checks the body, not the parameters
validateRequestBody == TRUE

PostValidator(body) ==
  validateRequestBody => Validates(requestModels("txt"), body)

\* the gateway's own answer to a body that fails validation: no gateway
\* response is customised, so it is the default one
BadRequestBody ==
  [body |-> [message |-> "Invalid request body"], status |-> 400]

\* $util.escapeJavaScript: quotes and backslashes get a backslash
RECURSIVE escapeJavaScript(_)
escapeJavaScript(s) ==
  IF s = <<>> THEN <<>>
  ELSE IF Head(s) \in {"'", "\"", "\\"}
       THEN <<"\\", Head(s)>> \o escapeJavaScript(Tail(s))
       ELSE <<Head(s)>> \o escapeJavaScript(Tail(s))

\* the characters of a JSON string literal decode: \" and \\ are escapes of
\* JSON, \' is not
RECURSIVE JsonDecodable(_)
JsonDecodable(s) ==
  IF s = <<>> THEN TRUE
  ELSE IF Head(s) = "\\"
       THEN /\ Len(s) >= 2
            /\ s[2] \in {"\"", "\\"}
            /\ JsonDecodable(Tail(Tail(s)))
       ELSE Head(s) # "\"" /\ JsonDecodable(Tail(s))

\* mutant: the escapes are kept as they are
JsonDecodeKeepsEscapes(s) == s

RECURSIVE JsonDecode(_)
JsonDecode(s) ==
  IF s = <<>> THEN <<>>
  ELSE IF Head(s) = "\\"
       THEN <<s[2]>> \o JsonDecode(Tail(Tail(s)))
       ELSE <<Head(s)>> \o JsonDecode(Tail(s))

\* the escaping and the decoding act on the characters of the body; the
\* characters that can need escaping are those of its string values

\* $util.escapeJavaScript($input.body)
EscapeBody(v) ==
  IF v.type = "string" THEN JStr(escapeJavaScript(v.s))
  ELSE IF v.type = "object"
       THEN JObj([n \in DOMAIN v.fields |->
                    IF v.fields[n].type = "string"
                    THEN JStr(escapeJavaScript(v.fields[n].s)) ELSE v.fields[n]])
       ELSE v

\* mutant: the member txt of the body alone is rendered
requestTemplatesTxtOnly(body) ==
  [input |-> EscapeBody(JObj([n \in {"txt"} |-> body.fields[n]]))]

\* the request template: "input": "$util.escapeJavaScript($input.body)"
requestTemplates(body) == [input |-> EscapeBody(body)]

\* what the states service makes of the request: it decodes the input member
InputParses(request) ==
  LET v == request.input IN
    IF v.type = "string" THEN JsonDecodable(v.s)
    ELSE IF v.type = "object"
         THEN \A n \in DOMAIN v.fields :
                 v.fields[n].type = "string" => JsonDecodable(v.fields[n].s)
         ELSE TRUE

ParseInput(request) ==
  LET v == request.input IN
    IF v.type = "string" THEN JStr(JsonDecode(v.s))
    ELSE IF v.type = "object"
         THEN JObj([n \in DOMAIN v.fields |->
                      IF v.fields[n].type = "string"
                      THEN JStr(JsonDecode(v.fields[n].s)) ELSE v.fields[n]])
         ELSE v

\* String.trim()
RECURSIVE TrimLeft(_)
TrimLeft(s) ==
  IF s # <<>> /\ Head(s) = " " THEN TrimLeft(Tail(s)) ELSE s

RECURSIVE TrimRight(_)
TrimRight(s) ==
  IF s # <<>> /\ s[Len(s)] = " " THEN TrimRight(SubSeq(s, 1, Len(s) - 1)) ELSE s

Trim(s) == TrimRight(TrimLeft(s))

\* $input.path('$.name'): the member of the integration's answer, the empty
\* string when it has none
InputPath(answer, name) ==
  IF name \in DOMAIN answer THEN answer[name] ELSE <<>>

\* statusCode of the one integration response
IntegrationStatusCode == 200
\* $context.responseOverride.status of the error and of the success branch
ErrorStatusOverride == 500
SuccessStatusOverride == 500

\* mutant: the error branch sets no status override
responseTemplatesNoErrorOverride(answer, requestId) ==
  IF InputPath(answer, "__type") # <<>>
  THEN [body |-> [message |-> Trim(InputPath(answer, "message")),
                  requestId |-> requestId],
        override |-> 0]
  ELSE [body |-> [requestId |-> requestId,
                  executionArn |-> Trim(InputPath(answer, "executionArn")),
                  startDate |-> InputPath(answer, "startDate")],
        override |-> SuccessStatusOverride]

\* the response template: the status override it sets and the body it renders
responseTemplates(answer, requestId) ==
  IF InputPath(answer, "__type") # <<>>
  THEN [body |-> [message |-> Trim(InputPath(answer, "message")),
                  requestId |-> requestId],
        override |-> ErrorStatusOverride]
  ELSE [body |-> [requestId |-> requestId,
                  executionArn |-> Trim(InputPath(answer, "executionArn")),
                  startDate |-> InputPath(answer, "startDate")],
        override |-> SuccessStatusOverride]

\* the one integration response (no selection pattern: it maps every answer);
\* an override of 0 stands for none set
integrationResponses(answer, requestId) ==
  LET t == responseTemplates(answer, requestId) IN
    [body |-> t.body,
     status |-> IF t.override # 0 THEN t.override ELSE IntegrationStatusCode]

(* -------------------------------- state -------------------------------- *)
VARIABLES
  gw,        \* gw[r]: where request r is: idle, received, validated, integrated, responded
  body,      \* body[r]: the body of request r
  answer,    \* answer[r]: what the StartExecution call answered
  response,  \* response[r]: the HTTP response of request r
  exec,      \* exec[r]: the execution request r started
  entered,   \* entered[r]: the states the execution entered, each with its input
  calls,     \* calls[r]: the capability calls the execution made, each with its request
  clock      \* the states service's clock

vars == <<gw, body, answer, response, exec, entered, calls, clock>>

None == [type |-> "none"]
NoExec == [status |-> "NONE"]

\* request bodies
Texts == { <<"o", "i">>, <<"i", "'", "m">>, <<"\"", "a">> }

Bodies ==
  { JObj([txt |-> JStr(t)]) : t \in Texts }
    \cup { JObj([txt |-> JStr(t), extra |-> JStr(<<"x">>)]) : t \in Texts }
    \cup { JObj(<<>>), JObj([txt |-> JNum(5)]), JObj([extra |-> JStr(<<"x">>)]),
           JStr(<<"o", "i">>) }

\* errors of the StartExecution call
SerializationException ==
  [message |-> <<"b", "a", "d">>, __type |-> <<"S", "E">>]
StartErrors ==
  { [message |-> <<" ", "b", "u", "s", "y", " ">>, __type |-> <<"L", "E">>] }

requestId(r) == <<"r", ToString(r)>>
executionArn(r) == <<"a", ToString(r)>>

Init ==
  /\ gw = [r \in Requests |-> "idle"]
  /\ body = [r \in Requests |-> None]
  /\ answer = [r \in Requests |-> None]
  /\ response = [r \in Requests |-> None]
  /\ exec = [r \in Requests |-> NoExec]
  /\ entered = [r \in Requests |-> <<>>]
  /\ calls = [r \in Requests |-> <<>>]
  /\ clock = 0

(* --------------------------- gateway actions --------------------------- *)
\* POST /sentiment arrives
Receive(r, bodies) ==
  /\ gw[r] = "idle"
  /\ \E b \in bodies : body' = [body EXCEPT ![r] = b]
  /\ gw' = [gw EXCEPT ![r] = "received"]
  /\ UNCHANGED <<answer, response, exec, entered, calls, clock>>

\* mutant: a body that fails validation is answered through the integration
\* response, as a refused start is
ValidateThroughIntegration(r) ==
  /\ gw[r] = "received"
  /\ IF PostValidator(body[r])
     THEN /\ gw' = [gw EXCEPT ![r] = "validated"]
          /\ UNCHANGED answer
     ELSE /\ gw' = [gw EXCEPT ![r] = "integrated"]
          /\ answer' = [answer EXCEPT ![r] =
                          [message |-> <<"t", "x", "t">>, __type |-> <<"V", "E">>]]
  /\ UNCHANGED <<body, response, exec, entered, calls, clock>>

\* the request validator: a body that fails is answered by the gateway
\* itself and the integration is not called
Validate(r) ==
  /\ gw[r] = "received"
  /\ IF PostValidator(body[r])
     THEN /\ gw' = [gw EXCEPT ![r] = "validated"]
          /\ UNCHANGED response
     ELSE /\ gw' = [gw EXCEPT ![r] = "responded"]
          /\ response' = [response EXCEPT ![r] = BadRequestBody]
  /\ UNCHANGED <<body, answer, exec, entered, calls, clock>>

\* the integration: states:StartExecution with the rendered request. The
\* call answers once the execution is created, before any state of it runs.
StartExecution(r) ==
  /\ gw[r] = "validated"
  /\ gw' = [gw EXCEPT ![r] = "integrated"]
  /\ LET request == requestTemplates(body[r]) IN
       IF ~InputParses(request)
       THEN /\ answer' = [answer EXCEPT ![r] = SerializationException]
            /\ UNCHANGED <<exec, clock>>
       ELSE \/ /\ clock' = clock + 1
               /\ exec' = [exec EXCEPT ![r] =
                             [status |-> "RUNNING", currentState |-> StartAt,
                              document |-> ParseInput(request), error |-> ""]]
               /\ answer' = [answer EXCEPT ![r] =
                               [executionArn |-> executionArn(r),
                                startDate |-> <<ToString(clock')>>]]
            \/ /\ \E e \in StartErrors : answer' = [answer EXCEPT ![r] = e]
               /\ UNCHANGED <<exec, clock>>
  /\ UNCHANGED <<body, response, entered, calls>>

\* mutant: the integration waits for the execution to end and reports how
\* it ended
postIntegrationSync(r) ==
  /\ gw[r] = "integrated"
  /\ exec[r].status # "RUNNING"
  /\ gw' = [gw EXCEPT ![r] = "responded"]
  /\ response' = [response EXCEPT ![r] =
       IF exec[r].status = "FAILED"
       THEN [body |-> [message |-> <<exec[r].error>>, requestId |-> requestId(r)],
             status |-> ErrorStatusOverride]
       ELSE integrationResponses(answer[r], requestId(r))]
  /\ UNCHANGED <<body, answer, exec, entered, calls, clock>>

\* the integration response, rendered from the answer of the call
postIntegration(r) ==
  /\ gw[r] = "integrated"
  /\ gw' = [gw EXCEPT ![r] = "responded"]
  /\ response' = [response EXCEPT ![r] = integrationResponses(answer[r], requestId(r))]
  /\ UNCHANGED <<body, answer, exec, entered, calls, clock>>

(* -------------------------- execution actions -------------------------- *)
Running(r, name) ==
  exec[r].status = "RUNNING" /\ exec[r].currentState = name

Enter(r, name) ==
  entered' = [entered EXCEPT ![r] =
                Append(@, [input |-> exec[r].document, state |-> name])]

\* mutant: an error ends every execution that is running
FailedAll(r, err) ==
  [q \in Requests |->
     IF exec[q].status = "RUNNING"
     THEN [exec[q] EXCEPT !.status = "FAILED", !.error = err]
     ELSE exec[q]]

\* mutant: a failed call leaves the execution at the state, which is entered
\* and calls again (twice at most)
FailedRetried(r, err) ==
  IF err = "States.TaskFailed" /\ Len(calls[r]) < 2
  THEN exec
  ELSE [exec EXCEPT ![r] = [@ EXCEPT !.status = "FAILED", !.error = err]]

\* no Retry and no Catch is declared on any state: an error ends the execution
Failed(r, err) ==
  [exec EXCEPT ![r] = [@ EXCEPT !.status = "FAILED", !.error = err]]

\* the state's output goes to its successor; a state with no successor ends
\* the execution with its output as the result
Completed(r, name, output) ==
  IF name \in DOMAIN chain
  THEN [exec EXCEPT ![r] = [@ EXCEPT !.currentState = chain[name], !.document = output]]
  ELSE [exec EXCEPT ![r] = [@ EXCEPT !.status = "SUCCEEDED", !.document = output]]

\* CallAwsService: the request is built from the parameters, the service is
\* called once, and its response is merged at the result path (or is the
\* output when no result path is declared)
Task(r, name, params, action, lists, merge) ==
  /\ Running(r, name)
  /\ Enter(r, name)
  /\ LET doc == exec[r].document IN
       IF ~ParametersOk(params, doc)
       THEN /\ exec' = Failed(r, "States.Runtime")
            /\ UNCHANGED calls
       ELSE LET req == EvalParameters(params, doc) IN
            /\ calls' = [calls EXCEPT ![r] = Append(@, [action |-> action, request |-> req])]
            /\ \/ exec' = Failed(r, "States.TaskFailed")
               \/ \E resp \in ServiceResponses(action, req, lists) :
                     exec' = Completed(r, name,
                               IF merge THEN MergeAt(doc, "result", resp) ELSE resp)
  /\ UNCHANGED <<gw, body, answer, response, clock>>

\* Pass with parameters: the output is the evaluated parameters alone
Pass(r, name, params) ==
  /\ Running(r, name)
  /\ Enter(r, name)
  /\ LET doc == exec[r].document IN
       IF ~ParametersOk(params, doc)
       THEN exec' = Failed(r, "States.Runtime")
       ELSE exec' = Completed(r, name, EvalParameters(params, doc))
  /\ UNCHANGED <<gw, body, answer, response, calls, clock>>

\* Choice: the first rule that holds gives the next state; there is no
\* default (no otherwise() is declared)
Choice(r, name, rules) ==
  /\ Running(r, name)
  /\ Enter(r, name)
  /\ LET doc == exec[r].document
         i == FirstMatch(rules, doc) IN
       IF \E j \in 1..Len(rules) : ~CondDefined(rules[j].cond, doc)
       THEN exec' = Failed(r, "States.Runtime")
       ELSE IF i = 0
            THEN exec' = Failed(r, "States.NoChoiceMatched")
            ELSE exec' = [exec EXCEPT ![r] = [@ EXCEPT !.currentState = rules[i].next]]
  /\ UNCHANGED <<gw, body, answer, response, calls, clock>>

detectLanguage(r, lists) ==
  Task(r, "DetectDominantLanguage", detectLanguageParameters,
       "comprehend:detectDominantLanguage", lists, TRUE)

formatResult(r) == Pass(r, "FormatResult", formatResultParameters)

translateNonPTLanguage(r) ==
  Choice(r, "TranslateNonPTLanguage", translateNonPTLanguageRules)

translateText(r) ==
  Task(r, "TranslateText", translateTextParameters, "translate:translateText",
       {}, TRUE)

formatTranslatedResult(r) ==
  Pass(r, "FormatTranslatedResult", formatTranslatedResultParameters)

\* mutant: the answer is merged under result, as the other Tasks' is
detectSentimentMerged(r) ==
  Task(r, "DetectSentiment", detectSentimentParameters, "comprehend:detectSentiment",
       {}, TRUE)

detectSentiment(r) ==
  Task(r, "DetectSentiment", detectSentimentParameters, "comprehend:detectSentiment",
       {}, FALSE)

(* ---------------------------- specifications --------------------------- *)
AllLanguageLists == LanguageLists(MaxLanguages)

\* one request, every body and every answer of the language detector
Next ==
  \/ Receive(1, Bodies)
  \/ Validate(1)
  \/ StartExecution(1)
  \/ postIntegration(1)
  \/ detectLanguage(1, AllLanguageLists)
  \/ formatResult(1)
  \/ translateNonPTLanguage(1)
  \/ translateText(1)
  \/ formatTranslatedResult(1)
  \/ detectSentiment(1)

Spec == Init /\ [][Next]_vars

\* the states service runs the execution it has started: a capability call
\* returns, with a result or a failure, and the state after it is entered
ExecutionStep ==
  \/ detectLanguage(1, AllLanguageLists)
  \/ formatResult(1)
  \/ translateNonPTLanguage(1)
  \/ translateText(1)
  \/ formatTranslatedResult(1)
  \/ detectSentiment(1)

SpecLive == Spec /\ WF_vars(ExecutionStep)

\* several requests in flight, the steps that start their executions and the
\* steps of the executions interleaved; fewer bodies and shorter detector
\* answers. The response to a request is rendered from the answer of its
\* start call alone and touches no execution: it is left to Spec.
ConcBodies == { JObj([txt |-> JStr(<<"o", "i">>)]), JObj(<<>>) }

ConcLanguageLists == { <<>>, <<Language(PT, 1)>>, <<Language(EN, 1)>> }

NextConc ==
  \E r \in Requests :
    \/ Receive(r, ConcBodies)
    \/ Validate(r)
    \/ StartExecution(r)
    \/ detectLanguage(r, ConcLanguageLists)
    \/ formatResult(r)
    \/ translateNonPTLanguage(r)
    \/ translateText(r)
    \/ formatTranslatedResult(r)
    \/ detectSentiment(r)

SpecConc == Init /\ [][NextConc]_vars

\* the Pass states on their own: one execution that stands at FormatResult or
\* at FormatTranslatedResult with any document of PassDocuments; the state is
\* applied, and applied once more to the document it produced
PassResults ==
  { JObj([Languages |-> JArr(<<>>)]),
    JObj([Languages |-> JArr(<<Language(EN, 1)>>)]),
    JObj([SourceLanguageCode |-> JStr(EN), TargetLanguageCode |-> JStr(PT),
          TranslatedText |-> JStr(<<"b", "o", "m">>)]) }

PassMembers ==
  [Text |-> JStr(<<"o", "i">>), Language |-> JStr(EN), txt |-> JStr(<<"\"", "a">>)]

PassDocuments ==
  { JObj([n \in ms |-> PassMembers[n]]) : ms \in SUBSET (DOMAIN PassMembers) }
    \cup { JObj([n \in ms \cup {"result"} |->
                   IF n = "result" THEN res ELSE PassMembers[n]]) :
             ms \in SUBSET (DOMAIN PassMembers), res \in PassResults }

PassStates == {"FormatResult", "FormatTranslatedResult"}

InitPass ==
  /\ gw = [r \in Requests |-> "idle"]
  /\ body = [r \in Requests |-> None]
  /\ answer = [r \in Requests |-> None]
  /\ response = [r \in Requests |-> None]
  /\ \E name \in PassStates : \E doc \in PassDocuments :
       exec = [r \in Requests |->
                 IF r = 1
                 THEN [status |-> "RUNNING", currentState |-> name,
                       document |-> doc, error |-> ""]
                 ELSE NoExec]
  /\ entered = [r \in Requests |-> <<>>]
  /\ calls = [r \in Requests |-> <<>>]
  /\ clock = 0

\* the state that was applied is the current state again, its output its input
PassAgain(r) ==
  /\ exec[r].status = "RUNNING"
  /\ Len(entered[r]) = 1
  /\ exec[r].currentState # entered[r][1].state
  /\ exec' = [exec EXCEPT ![r] = [@ EXCEPT !.currentState = entered[r][1].state]]
  /\ UNCHANGED <<gw, body, answer, response, entered, calls, clock>>

NextPass ==
  \/ formatResult(1)
  \/ formatTranslatedResult(1)
  \/ PassAgain(1)

SpecPass == InitPass /\ [][NextPass]_vars

(* -------------------------------- claims ------------------------------- *)
\* the entries of entered[r] for a state
EntriesOf(r, name) == { i \in 1..Len(entered[r]) : entered[r][i].state = name }

\* the calls of calls[r] to a service action
CallsOf(r, action) == { i \in 1..Len(calls[r]) : calls[r][i].action = action }

\* the Languages list in a document that holds the detector's answer
LanguagesIn(doc) == Resolve(doc, <<F("result"), F("Languages")>>)

\* C1: whenever DetectSentiment is entered, on the direct path and on the
\* path through TranslateText and FormatTranslatedResult alike, the Language
\* member of its input is "pt".
C1_LanguageIsPtEnteringDetectSentiment ==
  \A r \in Requests : \A i \in EntriesOf(r, "DetectSentiment") :
     Resolve(entered[r][i].input, <<F("Language")>>) = JStr(PT)

\* DetectSentiment entered after a translation of a text detected as "es"
C1_Witness ==
  \E r \in Requests :
     /\ EntriesOf(r, "DetectSentiment") # {}
     /\ EntriesOf(r, "FormatTranslatedResult") # {}
     /\ \E i \in EntriesOf(r, "TranslateText") :
           Resolve(entered[r][i].input, <<F("Language")>>) = JStr(ES)

\* C2: for every input of TranslateNonPTLanguage exactly one of its rules
\* holds; the state after it is DetectSentiment when Language is "pt" and
\* TranslateText otherwise; no execution fails for lack of a matching rule;
\* TranslateText is entered only with a Language other than "pt".
C2_ChoiceExhaustiveAndExclusive ==
  \A r \in Requests :
     /\ \A i \in EntriesOf(r, "TranslateNonPTLanguage") :
          LET doc == entered[r][i].input
              rules == translateNonPTLanguageRules IN
            /\ Cardinality({ j \in 1..Len(rules) : CondHolds(rules[j].cond, doc) }) = 1
            /\ exec[r].status # "FAILED" \/ Len(entered[r]) > i
            /\ Len(entered[r]) > i =>
                 entered[r][i + 1].state =
                   IF Resolve(doc, <<F("Language")>>) = JStr(PT)
                   THEN "DetectSentiment" ELSE "TranslateText"
     /\ exec[r].status = "FAILED" => exec[r].error # "States.NoChoiceMatched"
     /\ \A i \in EntriesOf(r, "TranslateText") :
          /\ Resolve(entered[r][i].input, <<F("Language")>>) # JStr(PT)
          /\ i > 1 /\ entered[r][i - 1].state = "TranslateNonPTLanguage"

\* the choice has routed a text detected as "es" to TranslateText
C2_Witness ==
  \E r \in Requests : \E i \in EntriesOf(r, "TranslateNonPTLanguage") :
     /\ Resolve(entered[r][i].input, <<F("Language")>>) = JStr(ES)
     /\ Len(entered[r]) > i
     /\ entered[r][i + 1].state = "TranslateText"

\* a request whose StartExecution call was accepted / was not accepted
StartAccepted(r) == "executionArn" \in DOMAIN answer[r]
StartRefused(r) == InputPath(answer[r], "__type") # <<>>

\* C3: a valid request whose StartExecution call succeeds is answered with
\* status 200 and a body of exactly requestId, executionArn and startDate.
C3_StartSuccessAnswered200 ==
  \A r \in Requests :
     (gw[r] = "responded" /\ StartAccepted(r)) =>
        /\ response[r].status = 200
        /\ DOMAIN response[r].body = {"requestId", "executionArn", "startDate"}

\* C4: when the StartExecution call is not accepted (its answer carries a
\* non-empty __type), the response has status 500 and a body of requestId and
\* message, without executionArn.
C4_StartErrorAnswered500 ==
  \A r \in Requests :
     (gw[r] = "responded" /\ StartRefused(r)) =>
        /\ response[r].status = 500
        /\ DOMAIN response[r].body = {"requestId", "message"}
        /\ response[r].body.requestId = requestId(r)
        /\ response[r].body.message = Trim(answer[r].message)
        /\ exec[r] = NoExec

\* a refused start has been answered, its message trimmed
C4_Witness ==
  \E r \in Requests :
     /\ gw[r] = "responded"
     /\ StartRefused(r)
     /\ response[r].body.message = <<"b", "u", "s", "y">>

\* the body has a member txt that is a string
HasStringTxt(b) ==
  b.type = "object" /\ "txt" \in DOMAIN b.fields /\ b.fields["txt"].type = "string"

\* C5: StartExecution is called, and an execution exists, only for a request
\* whose body has a string-typed txt member.
C5_NoStartWithoutStringTxt ==
  \A r \in Requests :
     (gw[r] \in {"integrated"} \/ answer[r] # None \/ exec[r] # NoExec) =>
        HasStringTxt(body[r])

\* the body {} was rejected and nothing was started for it
C5_Witness ==
  \E r \in Requests :
     /\ body[r] = JObj(<<>>)
     /\ gw[r] = "responded"
     /\ answer[r] = None
     /\ exec[r] = NoExec

\* C6 as stated: a request rejected by body validation is answered with
\* status 500 and a message, the way a refused start is.
C6_ValidationFailureAnswered500 ==
  \A r \in Requests :
     (gw[r] = "responded" /\ ~HasStringTxt(body[r])) =>
        /\ response[r].status = 500
        /\ "message" \in DOMAIN response[r].body

\* C6 amended: a request rejected by body validation is answered by the
\* gateway itself, with status 400 and a body that holds only the message
\* "Invalid request body"; the integration is not called and its response
\* template, which renders requestId and sets the status 500, plays no part.
C6_ValidationFailureAnswered400 ==
  \A r \in Requests :
     (gw[r] = "responded" /\ ~HasStringTxt(body[r])) =>
        /\ response[r].status = 400
        /\ DOMAIN response[r].body = {"message"}
        /\ response[r].body.message = "Invalid request body"
        /\ answer[r] = None

\* the body {} has been answered
C6_Witness ==
  \E r \in Requests :
     /\ body[r] = JObj(<<>>)
     /\ gw[r] = "responded"
     /\ response[r] # None

\* C7: the response is a function of the answer of the StartExecution call
\* alone; it can be sent as soon as that call has answered, whatever the
\* execution has or has not done; and once sent, no step changes it.
C7_ResponseFixedAtStart ==
  /\ [](\A r \in Requests :
          /\ gw[r] = "integrated" => ENABLED postIntegration(r)
          /\ (gw[r] = "responded" /\ answer[r] # None) =>
                response[r] = integrationResponses(answer[r], requestId(r)))
  /\ [][\A r \in Requests :
          /\ response[r] # None => response'[r] = response[r]
          /\ answer[r] # None => answer'[r] = answer[r]]_vars

\* the response of an accepted start stands while its execution has FAILED
C7_Witness ==
  \E r \in Requests :
     /\ gw[r] = "responded"
     /\ StartAccepted(r)
     /\ exec[r].status = "FAILED"
     /\ response[r].body.executionArn = executionArn(r)

\* the detector's answer in execution r held an empty Languages list
EmptyLanguages(r) ==
  \/ /\ Running(r, "FormatResult")
     /\ LanguagesIn(exec[r].document) = JArr(<<>>)
  \/ \E i \in EntriesOf(r, "FormatResult") :
        LanguagesIn(entered[r][i].input) = JArr(<<>>)

\* C8: when the detector answers with an empty Languages list, FormatResult
\* fails the execution (no language is substituted), nothing is entered after
\* FormatResult, and neither TranslateText nor DetectSentiment is called.
C8_EmptyLanguagesFailsAtFormatResult ==
  \A r \in Requests :
     EmptyLanguages(r) =>
        /\ exec[r].status # "SUCCEEDED"
        /\ exec[r].currentState = "FormatResult"
        /\ EntriesOf(r, "FormatResult") # {} =>
              /\ exec[r].status = "FAILED"
              /\ exec[r].error = "States.Runtime"
              /\ entered[r][Len(entered[r])].state = "FormatResult"
        /\ CallsOf(r, "translate:translateText") = {}
        /\ CallsOf(r, "comprehend:detectSentiment") = {}

\* FormatResult has failed an execution on an empty list
C8_Witness ==
  \E r \in Requests :
     /\ \E i \in EntriesOf(r, "FormatResult") :
           LanguagesIn(entered[r][i].input) = JArr(<<>>)
     /\ exec[r].status = "FAILED"

\* C9: the Language that FormatResult selects is the code of an entry of the
\* detector's list whose score no entry exceeds.
C9_SelectedLanguageHasMaxScore ==
  \A r \in Requests : \A i \in EntriesOf(r, "FormatResult") :
     Len(entered[r]) > i =>
        LET l == LanguagesIn(entered[r][i].input).items
            out == entered[r][i + 1].input IN
          \E k \in 1..Len(l) :
             /\ Resolve(out, <<F("Language")>>) = l[k].fields.LanguageCode
             /\ \A j \in 1..Len(l) : l[k].fields.Score.n >= l[j].fields.Score.n

\* FormatResult has selected from a list of two languages of different scores
C9_Witness ==
  \E r \in Requests : \E i \in EntriesOf(r, "FormatResult") :
     LET l == LanguagesIn(entered[r][i].input).items IN
       /\ Len(entered[r]) > i
       /\ Len(l) = 2
       /\ l[1].fields.Score.n > l[2].fields.Score.n
       /\ l[1].fields.LanguageCode # l[2].fields.LanguageCode

\* C10: every request to translateText has the Text of the request body's
\* txt, the SourceLanguageCode that FormatResult selected from the detector's
\* answer, and the TargetLanguageCode "pt".
C10_TranslateTextRequest ==
  \A r \in Requests : \A c \in CallsOf(r, "translate:translateText") :
     LET req == calls[r][c].request.fields IN
       /\ DOMAIN req = {"Text", "SourceLanguageCode", "TargetLanguageCode"}
       /\ req.Text = body[r].fields.txt
       /\ \E i \in EntriesOf(r, "FormatResult") :
             req.SourceLanguageCode =
               LanguagesIn(entered[r][i].input).items[1].fields.LanguageCode
       /\ req.TargetLanguageCode = JStr(PT)

\* translateText was called for a text that holds a quote, detected as "en"
C10_Witness ==
  \E r \in Requests : \E c \in CallsOf(r, "translate:translateText") :
     /\ calls[r][c].request.fields.Text = JStr(<<"\"", "a">>)
     /\ calls[r][c].request.fields.SourceLanguageCode = JStr(EN)

\* the language FormatResult selected in execution r, Missing when it has
\* selected none
DetectedLanguage(r) ==
  IF \E i \in EntriesOf(r, "FormatResult") : Len(entered[r]) > i
  THEN LET i == CHOOSE j \in EntriesOf(r, "FormatResult") : Len(entered[r]) > j IN
         Resolve(entered[r][i].input,
                 <<F("result"), F("Languages"), I(0), F("LanguageCode")>>)
  ELSE Missing

\* C11: the Text of every request to detectSentiment is the txt of the request
\* body, unchanged, when the detected language is "pt" (and then nothing was
\* translated), and is the TranslatedText of the translation's answer when the
\* detected language is any other.
C11_DetectSentimentText ==
  \A r \in Requests : \A c \in CallsOf(r, "comprehend:detectSentiment") :
     LET text == calls[r][c].request.fields.Text IN
       IF DetectedLanguage(r) = JStr(PT)
       THEN /\ text = body[r].fields.txt
            /\ CallsOf(r, "translate:translateText") = {}
       ELSE /\ DetectedLanguage(r) # Missing
            /\ \E i \in EntriesOf(r, "FormatTranslatedResult") :
                  text = Resolve(entered[r][i].input,
                                 <<F("result"), F("TranslatedText")>>)

\* detectSentiment was called with a translation that differs from the txt of
\* the body, the language detected being "en"
C11_Witness ==
  \E r \in Requests : \E c \in CallsOf(r, "comprehend:detectSentiment") :
     /\ DetectedLanguage(r) = JStr(EN)
     /\ body[r].fields.txt = JStr(<<"o", "i">>)
     /\ calls[r][c].request.fields.Text = JStr(<<"b", "o", "m">>)

\* C12 as stated: a Pass state applied to the document it produced gives that
\* document again.
C12_PassTwiceSameAsOnce ==
  \A r \in Requests :
     Len(entered[r]) = 2 =>
        /\ exec[r].status = "RUNNING"
        /\ exec[r].document = entered[r][2].input

\* C12 amended: the output of FormatResult and of FormatTranslatedResult holds
\* the members Text and Language alone, none of which the state's mapping
\* reads; applied to its own output the state fails with States.Runtime and
\* produces no document.
C12_PassOnItsOutputFails ==
  \A r \in Requests :
     Len(entered[r]) = 2 =>
        /\ entered[r][2].state = entered[r][1].state
        /\ entered[r][2].input =
              EvalParameters(IF entered[r][1].state = "FormatResult"
                             THEN formatResultParameters
                             ELSE formatTranslatedResultParameters,
                             entered[r][1].input)
        /\ DOMAIN entered[r][2].input.fields = {"Text", "Language"}
        /\ exec[r].status = "FAILED"
        /\ exec[r].error = "States.Runtime"

\* FormatTranslatedResult has been applied to the document it produced from a
\* translation's answer
C12_Witness ==
  \E r \in Requests :
     /\ Len(entered[r]) = 2
     /\ entered[r][2].state = "FormatTranslatedResult"
     /\ entered[r][2].input.fields.Text = JStr(<<"b", "o", "m">>)

\* the document execution r started with
StartDocument(r) ==
  IF entered[r] = <<>> THEN exec[r].document ELSE entered[r][1].input

\* C13 as stated: the document an execution starts with has the member txt of
\* the request body and no other member.
C13_StartDocumentIsTxtOnly ==
  \A r \in Requests :
     StartAccepted(r) =>
        StartDocument(r) = JObj([n \in {"txt"} |-> body[r].fields[n]])

\* C13 amended: the document an execution starts with is the whole request
\* body, every member of it, its txt included and unchanged; a member other
\* than txt is still there when FormatResult is entered, and no request to a
\* capability holds it.
C13_StartDocumentIsBody ==
  \A r \in Requests :
     StartAccepted(r) =>
        /\ StartDocument(r) = body[r]
        /\ \A i \in EntriesOf(r, "FormatResult") :
              \A n \in DOMAIN body[r].fields \ {"result"} :
                 Resolve(entered[r][i].input, <<F(n)>>) = body[r].fields[n]
        /\ \A c \in CallsOf(r, "comprehend:detectDominantLanguage") :
              calls[r][c].request = JObj([n \in {"Text"} |-> body[r].fields.txt])

\* an execution was started for a body with a member extra, which is in the
\* input of FormatResult
C13_Witness ==
  \E r \in Requests : \E i \in EntriesOf(r, "FormatResult") :
     /\ StartAccepted(r)
     /\ "extra" \in DOMAIN body[r].fields
     /\ Resolve(entered[r][i].input, <<F("extra")>>) = JStr(<<"x">>)

\* the service action each Task state calls
ActionOf ==
  [DetectDominantLanguage |-> "comprehend:detectDominantLanguage",
   TranslateText |-> "translate:translateText",
   DetectSentiment |-> "comprehend:detectSentiment"]

\* C14: each capability is called at most once in an execution; when a call
\* fails the execution is FAILED at the state that made the call, which is the
\* last state entered and whose call is the last call made; and a FAILED
\* execution enters no state, makes no call and does not change any more.
C14_CapabilityFailureIsTerminal ==
  /\ [](\A r \in Requests :
          /\ \A name \in DOMAIN ActionOf :
                /\ Cardinality(CallsOf(r, ActionOf[name])) <= 1
                /\ Cardinality(EntriesOf(r, name)) <= 1
          /\ (exec[r].status = "FAILED" /\ exec[r].error = "States.TaskFailed") =>
                /\ exec[r].currentState \in DOMAIN ActionOf
                /\ entered[r][Len(entered[r])].state = exec[r].currentState
                /\ calls[r][Len(calls[r])].action = ActionOf[exec[r].currentState]
                /\ exec[r].document = entered[r][Len(entered[r])].input)
  /\ [][\A r \in Requests :
          exec[r].status = "FAILED" =>
             /\ exec'[r] = exec[r]
             /\ entered'[r] = entered[r]
             /\ calls'[r] = calls[r]]_vars

\* the call of TranslateText has failed: the detector was called once, the
\* translation once, the sentiment analysis not at all
C14_Witness ==
  \E r \in Requests :
     /\ exec[r].status = "FAILED"
     /\ exec[r].error = "States.TaskFailed"
     /\ exec[r].currentState = "TranslateText"
     /\ Cardinality(CallsOf(r, "comprehend:detectDominantLanguage")) = 1
     /\ Cardinality(CallsOf(r, "translate:translateText")) = 1
     /\ CallsOf(r, "comprehend:detectSentiment") = {}

\* the states that can follow a state: its next state, or the targets of its
\* rules for the Choice
Successors(name) ==
  IF name \in DOMAIN chain THEN {chain[name]}
  ELSE IF name = "TranslateNonPTLanguage"
       THEN { translateNonPTLanguageRules[i].next :
                i \in 1..Len(translateNonPTLanguageRules) }
       ELSE {}

\* the states reached from a set of states in any number of steps
RECURSIVE ReachableFrom(_, _)
ReachableFrom(names, k) ==
  IF k = 0 THEN names
  ELSE ReachableFrom(names \cup UNION { Successors(n) : n \in names }, k - 1)

GraphAcyclic ==
  \A name \in StateNames :
     name \notin ReachableFrom(Successors(name), Cardinality(StateNames))

\* C15: the graph has no cycle, no state is entered twice in an execution,
\* and, its steps being taken whenever they stay possible, every execution
\* that is RUNNING ends SUCCEEDED or FAILED.
C15_ExecutionTerminates ==
  /\ [](/\ GraphAcyclic
        /\ \A r \in Requests : \A name \in StateNames :
              Cardinality(EntriesOf(r, name)) <= 1)
  /\ \A r \in Requests :
        (exec[r].status = "RUNNING") ~> (exec[r].status \in {"SUCCEEDED", "FAILED"})

\* an execution has ended SUCCEEDED on the longest path, each of the six
\* states entered once
C15_Witness ==
  \E r \in Requests :
     /\ exec[r].status = "SUCCEEDED"
     /\ Len(entered[r]) = Cardinality(StateNames)
     /\ \A name \in StateNames : Cardinality(EntriesOf(r, name)) = 1

\* C16: DetectSentiment is the one state with no successor; an execution
\* becomes SUCCEEDED only in a step taken at DetectSentiment; and the document
\* of a SUCCEEDED execution is the answer of the sentiment analysis to the
\* request DetectSentiment made, with no member Text, Language, txt or result.
C16_SucceededAfterDetectSentiment ==
  /\ [](/\ { name \in StateNames : Successors(name) = {} } = {"DetectSentiment"}
        /\ \A r \in Requests :
              exec[r].status = "SUCCEEDED" =>
                 /\ entered[r][Len(entered[r])].state = "DetectSentiment"
                 /\ calls[r][Len(calls[r])].action = "comprehend:detectSentiment"
                 /\ exec[r].document \in
                       DetectSentimentResponses(calls[r][Len(calls[r])].request)
                 /\ (DOMAIN exec[r].document.fields)
                       \cap {"Text", "Language", "txt", "result"} = {})
  /\ [][\A r \in Requests :
          (exec'[r].status = "SUCCEEDED" /\ exec[r].status # "SUCCEEDED") =>
             /\ Running(r, "DetectSentiment")
             /\ Len(calls'[r]) = Len(calls[r]) + 1]_vars

\* an execution has SUCCEEDED with a sentiment as its document, for a body
\* that had a member extra
C16_Witness ==
  \E r \in Requests :
     /\ exec[r].status = "SUCCEEDED"
     /\ exec[r].document = JObj([n \in {"Sentiment"} |-> JStr(<<"N", "E", "G">>)])
     /\ "extra" \in DOMAIN body[r].fields

\* the two paths of the graph
DirectPath ==
  <<"DetectDominantLanguage", "FormatResult", "TranslateNonPTLanguage",
    "DetectSentiment">>

TranslatedPath ==
  <<"DetectDominantLanguage", "FormatResult", "TranslateNonPTLanguage",
    "TranslateText", "FormatTranslatedResult", "DetectSentiment">>

\* the states execution r has entered, in the order it entered them
StatesEntered(r) == [i \in 1..Len(entered[r]) |-> entered[r][i].state]

IsPrefix(s, t) == Len(s) <= Len(t) /\ \A i \in 1..Len(s) : s[i] = t[i]

OnAPath(s) == IsPrefix(s, DirectPath) \/ IsPrefix(s, TranslatedPath)

\* C17: the states an execution has entered, followed by the state it stands
\* at, are the beginning of DetectDominantLanguage, FormatResult,
\* TranslateNonPTLanguage, DetectSentiment or of DetectDominantLanguage,
\* FormatResult, TranslateNonPTLanguage, TranslateText,
\* FormatTranslatedResult, DetectSentiment; a step enters one state at most
\* and keeps the states entered before; the sentiment analysis is called
\* after the detector was called and FormatResult has read its answer, and,
\* when the language detected is not "pt", after the translation was called
\* and FormatTranslatedResult has read its answer.
C17_StatesEnteredInGraphOrder ==
  /\ [](\A r \in Requests :
          /\ OnAPath(StatesEntered(r))
          /\ exec[r].status = "RUNNING" =>
                OnAPath(Append(StatesEntered(r), exec[r].currentState))
          /\ \A c \in CallsOf(r, "comprehend:detectSentiment") :
                /\ \E d \in CallsOf(r, "comprehend:detectDominantLanguage") : d < c
                /\ EntriesOf(r, "FormatResult") # {}
                /\ DetectedLanguage(r) # JStr(PT) =>
                      /\ \E t \in CallsOf(r, "translate:translateText") : t < c
                      /\ EntriesOf(r, "FormatTranslatedResult") # {}
                      /\ StatesEntered(r) = TranslatedPath)
  /\ [][\A r \in Requests :
          \/ entered'[r] = entered[r]
          \/ /\ Len(entered'[r]) = Len(entered[r]) + 1
             /\ SubSeq(entered'[r], 1, Len(entered[r])) = entered[r]
             /\ entered'[r][Len(entered'[r])].state = exec[r].currentState]_vars

\* the six states of the path through the translation were entered for a
\* text detected as "es"
C17_Witness ==
  \E r \in Requests :
     /\ StatesEntered(r) = TranslatedPath
     /\ DetectedLanguage(r) = JStr(ES)

\* the parameters of each Task and Pass state
StateParameters ==
  [DetectDominantLanguage |-> detectLanguageParameters,
   FormatResult |-> formatResultParameters,
   TranslateText |-> translateTextParameters,
   FormatTranslatedResult |-> formatTranslatedResultParameters,
   DetectSentiment |-> detectSentimentParameters]

\* what an execution that runs alone can hand on from a state entered with
\* doc: the documents, none when the state can only fail, and the next state
OutputsAlone(name, doc) ==
  IF name = "TranslateNonPTLanguage"
  THEN IF /\ \A j \in 1..Len(translateNonPTLanguageRules) :
               CondDefined(translateNonPTLanguageRules[j].cond, doc)
          /\ FirstMatch(translateNonPTLanguageRules, doc) # 0
       THEN {doc} ELSE {}
  ELSE IF ~ParametersOk(StateParameters[name], doc) THEN {}
  ELSE LET req == EvalParameters(StateParameters[name], doc) IN
         IF name \notin DOMAIN ActionOf THEN {req}
         ELSE { IF name = "DetectSentiment" THEN resp ELSE MergeAt(doc, "result", resp) :
                  resp \in ServiceResponses(ActionOf[name], req, ConcLanguageLists) }

NextAlone(name, doc) ==
  IF name = "TranslateNonPTLanguage"
  THEN translateNonPTLanguageRules[FirstMatch(translateNonPTLanguageRules, doc)].next
  ELSE chain[name]

\* the documents, the routing and the status of execution r are those of an
\* execution that runs alone on the body of request r
RanAlone(r) ==
  LET n == Len(entered[r]) IN
    IF exec[r] = NoExec THEN entered[r] = <<>> /\ calls[r] = <<>>
    ELSE
      /\ StartDocument(r) = ParseInput(requestTemplates(body[r]))
      /\ \A i \in 1..(n - 1) :
            /\ entered[r][i + 1].input \in OutputsAlone(entered[r][i].state, entered[r][i].input)
            /\ entered[r][i + 1].state = NextAlone(entered[r][i].state, entered[r][i].input)
      /\ n = 0 => Running(r, StartAt)
      /\ n > 0 =>
            LET e == entered[r][n] IN
              IF exec[r].status = "FAILED"
              THEN /\ exec[r].currentState = e.state
                   /\ exec[r].document = e.input
                   /\ IF exec[r].error = "States.TaskFailed"
                      THEN /\ e.state \in DOMAIN ActionOf
                           /\ ParametersOk(StateParameters[e.state], e.input)
                      ELSE OutputsAlone(e.state, e.input) = {}
              ELSE /\ exec[r].document \in OutputsAlone(e.state, e.input)
                   /\ IF exec[r].status = "SUCCEEDED"
                      THEN e.state = "DetectSentiment"
                      ELSE exec[r].currentState = NextAlone(e.state, e.input)

\* C18: with several requests in flight, in every state each execution has
\* the documents, the routing and the status of an execution that runs alone
\* on its own body; every step is a step of one request and leaves what
\* belongs to the other requests as it is; in particular the step in which an
\* execution fails changes no other execution.
C18_ExecutionsIndependent ==
  /\ [](\A r \in Requests : RanAlone(r))
  /\ [][/\ \E r \in Requests : \A q \in Requests \ {r} :
            /\ exec'[q] = exec[q]
            /\ entered'[q] = entered[q]
            /\ calls'[q] = calls[q]
            /\ body'[q] = body[q]
            /\ answer'[q] = answer[q]
            /\ response'[q] = response[q]
            /\ gw'[q] = gw[q]
        /\ \A r \in Requests :
            (exec'[r].status = "FAILED" /\ exec[r].status # "FAILED") =>
               \A q \in Requests \ {r} : exec'[q].status = exec[q].status]_vars

\* two executions started for the same body: one has FAILED at its first
\* state, the other has SUCCEEDED after it
C18_Witness ==
  \E r \in Requests : \E q \in Requests \ {r} :
     /\ body[r] = body[q]
     /\ exec[r].status = "FAILED"
     /\ Len(entered[r]) = 1
     /\ exec[q].status = "SUCCEEDED"
     /\ clock = 2

\* the document after is the document before with resp under result and every
\* other member as it was
MergedUnderResult(before, after, resp) ==
  /\ DOMAIN after.fields = (DOMAIN before.fields) \cup {"result"}
  /\ after.fields.result = resp
  /\ \A n \in (DOMAIN before.fields) \ {"result"} : after.fields[n] = before.fields[n]

\* C19: when DetectDominantLanguage has succeeded, the document is its input
\* with the detector's answer under result: txt is the txt of the input, and
\* every other member is kept; when TranslateText has succeeded, the document
\* is its input with the translation's answer under result: Text and
\* Language are those of the input.
C19_ResultPathKeepsDocument ==
  \A r \in Requests :
     /\ \A i \in EntriesOf(r, "DetectDominantLanguage") :
          Len(entered[r]) > i =>
             LET before == entered[r][i].input
                 after == entered[r][i + 1].input IN
               /\ \E resp \in DetectDominantLanguageResponses(
                                  EvalParameters(detectLanguageParameters, before),
                                  AllLanguageLists) :
                     MergedUnderResult(before, after, resp)
               /\ after.fields.txt = before.fields.txt
               /\ after.fields.txt = body[r].fields.txt
     /\ \A i \in EntriesOf(r, "TranslateText") :
          Len(entered[r]) > i =>
             LET before == entered[r][i].input
                 after == entered[r][i + 1].input IN
               /\ \E resp \in TranslateTextResponses(
                                  EvalParameters(translateTextParameters, before)) :
                     MergedUnderResult(before, after, resp)
               /\ after.fields.Text = before.fields.Text
               /\ after.fields.Language = before.fields.Language

\* TranslateText has succeeded on a text that holds a quote: the document has
\* the text, the language "en" and the translation under result; and
\* DetectDominantLanguage had kept the member extra of the body
C19_Witness ==
  \E r \in Requests : \E i \in EntriesOf(r, "TranslateText") :
     /\ Len(entered[r]) > i
     /\ entered[r][i + 1].input.fields.Text = JStr(<<"\"", "a">>)
     /\ entered[r][i + 1].input.fields.Language = JStr(EN)
     /\ Resolve(entered[r][i + 1].input, <<F("result"), F("TranslatedText")>>)
          = JStr(<<"b", "o", "m">>)
     /\ Resolve(entered[r][2].input, <<F("extra")>>) = JStr(<<"x">>)

\* the members of a document
Members(doc) == DOMAIN doc.fields

\* C20: the document FormatResult and FormatTranslatedResult hand on has the
\* members Text and Language and no other, whatever their input held (txt,
\* result, any other member of the body); the input of
\* TranslateNonPTLanguage and the input of DetectSentiment have exactly these
\* two members.
C20_ProjectionKeepsTextAndLanguage ==
  \A r \in Requests : \A i \in 1..Len(entered[r]) :
     /\ (entered[r][i].state \in PassStates /\ Len(entered[r]) > i) =>
           /\ Members(entered[r][i + 1].input) = {"Text", "Language"}
           /\ "result" \in Members(entered[r][i].input)
     /\ entered[r][i].state \in {"TranslateNonPTLanguage", "DetectSentiment"} =>
           /\ Members(entered[r][i].input) = {"Text", "Language"}
           /\ entered[r][i].input.fields.Text.type = "string"
           /\ entered[r][i].input.fields.Language.type = "string"

\* DetectSentiment was entered after both projections, the first of which
\* had txt, extra and result in its input
C20_Witness ==
  \E r \in Requests : \E i \in EntriesOf(r, "FormatResult") :
     /\ Members(entered[r][i].input) = {"txt", "extra", "result"}
     /\ EntriesOf(r, "FormatTranslatedResult") # {}
     /\ EntriesOf(r, "DetectSentiment") # {}

====
